---- MODULE Spec2Model ----
(***************************************************************************)
(* Substack2Markdown: a model of substack_scraper.py.                      *)
(*                                                                         *)
(* One process run is main(): the scraper is constructed (URL discovery,   *)
(* and in premium mode the browser login), then scrape_posts walks the     *)
(* discovered URLs and the index is merged and written.  The disk          *)
(* (Markdown files, HTML mirrors, the JSON index) persists from one run to *)
(* the next; everything else is rebuilt by each run.                       *)
(*                                                                         *)
(* A URL is a sequence of tokens, "/" being the path separator, so that    *)
(* url.split("/")[-1] and "keyword in url" are computed, not assumed.      *)
(***************************************************************************)
EXTENDS Integers, Sequences, FiniteSets, TLC

\* ------------------------------------------------------------------ bounds
MaxUrls == 3        \* most URLs a sitemap of the pipeline runs lists
MaxFeedItems == 1   \* most items of the feed in the pipeline runs
MaxLimit == 2       \* largest post-count limit given on the command line
MaxRuns == 2        \* process runs in a row against the same site
MaxSrcItems == 2    \* most entries of a sitemap / feed in the discovery runs
MaxPremiumUrls == 2 \* most URLs a sitemap of the premium runs lists
MaxIndexLen == 2    \* most records of the index file in the merge runs
MaxBatchLen == 2    \* most records of the batch in the merge runs

\* ------------------------------------------------------- program constants
CaptchaBudget == 120   \* range(120, 0, -10): seconds waited for the challenge
CaptchaStep == 10      \* seconds between two polls of the browser location

\* -------------------------------------------------------------- the site
U_a == <<"site", "/", "p", "/", "a">>
U_b == <<"site", "/", "p", "/", "b">>
U_pay == <<"site", "/", "p", "/", "pay">>
U_x == <<"site", "/", "p", "/", "x">>
U_n == <<"site", "/", "p", "/", "n">>
U_f == <<"site", "/", "p", "/", "f">>
U_h == <<"site", "/", "p", "/", "long-slug">>
U_t == <<"site", "/", "p", "/", "t">>
U_s == <<"site", "/", "s", "/", "a">>     \* another page under the slug of U_a
U_about == <<"site", "/", "about">>
U_arch == <<"site", "/", "archive">>
U_pod == <<"site", "/", "p", "/", "my", "-", "podcast", "-", "notes">>

PostUrls == {U_a, U_b, U_pay, U_x, U_n, U_h}   \* posts of the runs without -p
PremiumUrls == {U_a, U_pay, U_n, U_f, U_t}     \* posts of the runs with -p
SrcUrls == {U_a, U_about, U_arch, U_pod}
SlugUrls == {U_a, U_s, U_h, U_pay}             \* posts of the runs on shared slugs

\* A heading of a page, in document order: its selector class and its text.
H1(t) == [sel |-> "h1.post-title", text |-> t]
H2(t) == [sel |-> "h2", text |-> t]
H2Paywall == [sel |-> "h2.paywall-title", text |-> "This post is for paid subscribers"]

FullPage(hs, body) ==
  [nav |-> "ok", headings |-> hs, container |-> TRUE, content |-> body,
   post_content |-> FALSE, subtitle |-> "", date |-> "", likes |-> ""]

\* What the site serves at each post URL.
Page(url) ==
  CASE url = U_a -> [FullPage(<<H1("A")>>, "body-a") EXCEPT
                       !.subtitle = "sub-a", !.date = "JAN 1", !.likes = "12"]
    [] url = U_b -> [FullPage(<<H2("B")>>, "body-b") EXCEPT !.likes = "many"]
    [] url = U_pay -> FullPage(<<H1("Pay"), H2Paywall>>, "preview-pay")
    [] url = U_x -> FullPage(<<>>, "body-x")
    [] url = U_n -> [FullPage(<<H1("N")>>, "") EXCEPT !.container = FALSE]
    [] url = U_f -> [FullPage(<<>>, "") EXCEPT !.nav = "error", !.container = FALSE]
    [] url = U_h -> FullPage(<<H1("H")>>, "body-h")
    [] url = U_t -> [FullPage(<<H2("T")>>, "") EXCEPT !.container = FALSE]
    [] url = U_s -> FullPage(<<H2("Watch"), H1("S")>>, "body-s")
    [] OTHER -> FullPage(<<H1("P")>>, "body-p")

\* File names the filesystem refuses to create (open() raises OSError):
\* the slug of U_h is so long that only its ".html" name exceeds the limit.
Unwritable == {<<"long-slug", ".", "html">>}

\* ------------------------------------------------------- pure functions
keywords == <<"about", "archive", "podcast">>

Range(s) == {s[k] : k \in 1..Len(s)}

\* keyword in url
Contains(url, kw) == \E k \in 1..Len(url) : url[k] = kw

\* filter_urls with any() in place of all(): a URL goes only when it
\* holds every keyword.
filter_urls_AnyKeywordAbsent(urls, kws) ==
  SelectSeq(urls, LAMBDA u : \E k \in 1..Len(kws) : ~Contains(u, kws[k]))

filter_urls(urls, kws) ==
  SelectSeq(urls, LAMBDA u : \A k \in 1..Len(kws) : ~Contains(u, kws[k]))

\* url.split("/")[-1]
LastSegment(url) ==
  LET slashes == {k \in 1..Len(url) : url[k] = "/"}
      last == IF slashes = {} THEN 0 ELSE CHOOSE k \in slashes : \A j \in slashes : j <= k
  IN SubSeq(url, last + 1, Len(url))

get_filename_from_url(url, filetype) ==
  LastSegment(url) \o (IF Len(filetype) > 0 /\ filetype[1] = "." THEN filetype
                       ELSE <<".">> \o filetype)

MdType == <<".", "md">>
HtmlType == <<".", "html">>

\* os.path.relpath(<dir>/<name>, base_output_dir)
RelPath(dir, name) == <<dir, "/">> \o name

html_to_md(html) == <<"md", html>>
md_to_html(md) == <<"html", md>>

combine_metadata_and_content(title, subtitle, date, like_count, content) ==
  [title |-> title, subtitle |-> subtitle, date |-> date,
   likes |-> like_count, body |-> content]

\* soup.select_one("h1.post-title, h2"): the first heading, in document
\* order, that matches either selector (an h2 of any class matches "h2").
TitleMatches(soup) ==
  {k \in 1..Len(soup.headings) :
      soup.headings[k].sel \in {"h1.post-title", "h2", "h2.paywall-title"}}

IsDigits(s) == s \in {"0", "12"}

extract_post_data(soup) ==
  IF TitleMatches(soup) = {}
  THEN [raised |-> TRUE, title |-> "", subtitle |-> "", like_count |-> "",
        date |-> "", md |-> <<>>]
  ELSE
    LET first == CHOOSE k \in TitleMatches(soup) : \A j \in TitleMatches(soup) : k <= j
        title == soup.headings[first].text
        subtitle == soup.subtitle
        date == IF soup.date # "" THEN soup.date ELSE "Date not found"
        like_count == IF soup.likes # "" /\ IsDigits(soup.likes) THEN soup.likes ELSE "0"
        content == IF soup.container THEN soup.content ELSE "None"
        md == combine_metadata_and_content(title, subtitle, date, like_count,
                                           html_to_md(content))
    IN [raised |-> FALSE, title |-> title, subtitle |-> subtitle,
        like_count |-> like_count, date |-> date, md |-> md]

\* ------------------------------------------------------------- the disk
\* The JSON index: whether the file exists, and the array it holds.
NoIndex == [exists |-> FALSE, data |-> <<>>]
IndexOf(data) == [exists |-> TRUE, data |-> data]

path_exists(files, name) == name \in DOMAIN files

Put(files, name, content) ==
  [n \in DOMAIN files \cup {name} |-> IF n = name THEN content ELSE files[n]]

\* save_to_file: [raised, files]
save_to_file(files, name, content) ==
  IF path_exists(files, name) THEN [raised |-> FALSE, files |-> files]
  ELSE IF name \in Unwritable THEN [raised |-> TRUE, files |-> files]
  ELSE [raised |-> FALSE, files |-> Put(files, name, content)]

\* save_to_html_file: opens the target with 'w' whether or not it exists
save_to_html_file(files, name, content) ==
  IF name \in Unwritable THEN [raised |-> TRUE, files |-> files]
  ELSE [raised |-> FALSE,
        files |-> Put(files, name, [css |-> "../assets/css/essay-styles.css",
                                    main |-> content])]

\* save_essays_data_to_json appending the whole batch (no "not in" test).
save_essays_data_to_json_NoDedup(index, essays) == IndexOf(index.data \o essays)

\* save_essays_data_to_json writing the batch over the existing index.
save_essays_data_to_json_Overwrite(index, essays) == IndexOf(essays)

\* save_essays_data_to_json: the index file after a batch is saved
save_essays_data_to_json(index, essays) ==
  IF index.exists
  THEN IndexOf(index.data \o SelectSeq(essays, LAMBDA d : d \notin Range(index.data)))
  ELSE IndexOf(essays)

\* ------------------------------------------------------------ the state
VARIABLES
  sitemap, feed,        \* what the site answers at sitemap.xml and feed.xml
  premium,              \* args.premium: PremiumSubstackScraper is used
  md_files, html_files, \* the markdown/ and html/ directories: name -> content
  index_json,           \* <writer_name>.json
  pc,                   \* where the running process stands
  run,                  \* number of processes started so far
  num_posts_to_scrape,  \* args.number of the running process
  post_urls,            \* self.post_urls
  idx,                  \* position of the for loop in post_urls (next to visit)
  count, total,         \* locals of scrape_posts
  essays_data,          \* the batch of scrape_posts
  remaining,            \* loop variable i of login's wait loop (seconds left)
  requests,             \* log: discovery endpoints requested by this process
  fetched,              \* log: URLs handed to get_url_soup by this process
  outcomes,             \* log: one entry per URL examined by scrape_posts
  login_log,            \* log: what login did and saw in this process
  error,                \* the exception that ended the process, if any
  prev_done, prev_limit,\* the previous process completed, and its limit
  interrupted,          \* some earlier process was killed
  fresh_index           \* the index was absent or empty when the process started

vars == <<sitemap, feed, premium, md_files, html_files, index_json, pc, run,
          num_posts_to_scrape, post_urls, idx, count, total, essays_data,
          remaining, requests, fetched, outcomes, login_log, error,
          prev_done, prev_limit, interrupted, fresh_index>>

site == <<sitemap, feed, premium>>
disk == <<md_files, html_files, index_json>>
locals == <<post_urls, idx, count, total, essays_data>>

\* ------------------------------------------------------ what a site serves
RECURSIVE SeqsUpTo(_, _)
SeqsUpTo(S, n) ==
  IF n = 0 THEN {<<>>}
  ELSE LET shorter == SeqsUpTo(S, n - 1)
       IN shorter \cup {Append(s, x) : s \in {t \in shorter : Len(t) = n - 1}, x \in S}

HttpError == [ok |-> FALSE, well_formed |-> FALSE, items |-> <<>>]
Malformed == [ok |-> TRUE, well_formed |-> FALSE, items |-> <<>>]
Xml(items) == [ok |-> TRUE, well_formed |-> TRUE, items |-> items]

\* A feed <item>: its <link> may be missing, or hold no text.
Item(url) == [has_link |-> TRUE, text |-> url]
NoLinkItem == [has_link |-> FALSE, text |-> <<>>]

Injective(s) == \A j, k \in 1..Len(s) : s[j] = s[k] => j = k

Responses(lists) == {HttpError, Malformed} \cup {Xml(l) : l \in lists}

\* --------------------------------------------------------------- discovery
\* fetch_urls_from_sitemap: [raised, urls]
fetch_urls_from_sitemap ==
  IF ~sitemap.ok THEN [raised |-> FALSE, urls |-> <<>>]
  ELSE IF ~sitemap.well_formed THEN [raised |-> TRUE, urls |-> <<>>]
  ELSE [raised |-> FALSE, urls |-> sitemap.items]

\* fetch_urls_from_feed: [raised, urls]
fetch_urls_from_feed ==
  IF ~feed.ok THEN [raised |-> FALSE, urls |-> <<>>]
  ELSE IF ~feed.well_formed THEN [raised |-> TRUE, urls |-> <<>>]
  ELSE LET linked == SelectSeq(feed.items, LAMBDA it : it.has_link /\ it.text # <<>>)
       IN [raised |-> FALSE, urls |-> [k \in 1..Len(linked) |-> linked[k].text]]

\* get_all_post_urls without the fallback of lines 148-149.
get_all_post_urls_NoFallback ==
  LET s == fetch_urls_from_sitemap
  IN [raised |-> s.raised,
      urls |-> IF s.raised THEN <<>> ELSE filter_urls(s.urls, keywords),
      requests |-> <<"sitemap.xml">>]

\* get_all_post_urls: [raised, urls, requests]
get_all_post_urls ==
  LET s == fetch_urls_from_sitemap
  IN IF s.raised
     THEN [raised |-> TRUE, urls |-> <<>>, requests |-> <<"sitemap.xml">>]
     ELSE IF s.urls = <<>>
     THEN LET f == fetch_urls_from_feed
          IN [raised |-> f.raised,
              urls |-> IF f.raised THEN <<>> ELSE filter_urls(f.urls, keywords),
              requests |-> <<"sitemap.xml", "feed.xml">>]
     ELSE [raised |-> FALSE, urls |-> filter_urls(s.urls, keywords),
           requests |-> <<"sitemap.xml">>]

\* ---------------------------------------------------------------- fetchers
HasPaywallTitle(page) ==
  \E k \in 1..Len(page.headings) : page.headings[k].sel = "h2.paywall-title"

\* SubstackScraper.get_url_soup: [raised, none, soup]
SubstackScraper_get_url_soup(url) ==
  LET page == Page(url)
  IN IF page.nav = "error" THEN [raised |-> TRUE, none |-> FALSE, soup |-> page]
     ELSE IF HasPaywallTitle(page) THEN [raised |-> FALSE, none |-> TRUE, soup |-> page]
     ELSE [raised |-> FALSE, none |-> FALSE, soup |-> page]

\* The condition wait.until polls for (lines 577-583): one of the four
\* markers is in the document.
Ready(page) ==
  \/ page.container
  \/ \E k \in 1..Len(page.headings) :
        page.headings[k].sel \in {"h1.post-title", "h2.paywall-title"}
  \/ page.post_content

\* PremiumSubstackScraper.get_url_soup: [raised, none, soup]; when the wait
\* times out the exception is caught and printed, and the page source is
\* returned as after a wait that succeeded.
PremiumSubstackScraper_get_url_soup(url) ==
  LET page == Page(url)
  IN IF page.nav = "error" THEN [raised |-> TRUE, none |-> FALSE, soup |-> page]
     ELSE IF ~Ready(page) THEN [raised |-> FALSE, none |-> FALSE, soup |-> page]
     ELSE [raised |-> FALSE, none |-> FALSE, soup |-> page]

get_url_soup(url) ==
  IF premium THEN PremiumSubstackScraper_get_url_soup(url)
  ELSE SubstackScraper_get_url_soup(url)

\* ------------------------------------------------- scrape_posts: one URL
Record(e, md_name, html_name) ==
  [title |-> e.title, subtitle |-> e.subtitle, like_count |-> e.like_count,
   date |-> e.date, file_link |-> RelPath("markdown", md_name),
   html_link |-> RelPath("html", html_name)]

Result(outcome, stage, fetch, md, html, essays) ==
  [outcome |-> outcome, stage |-> stage, fetch |-> fetch,
   md |-> md, html |-> html, essays |-> essays]

\* FetchAndSave appending the record before the HTML mirror is written: a
\* failing HTML write leaves the record in the batch.
FetchAndSave_RecordBeforeHtml(url) ==
  LET md_name == get_filename_from_url(url, MdType)
      html_name == get_filename_from_url(url, HtmlType)
      r == get_url_soup(url)
  IN IF r.raised
     THEN Result("error", "fetch", TRUE, md_files, html_files, essays_data)
     ELSE IF r.none
     THEN Result("paywalled", "", TRUE, md_files, html_files, essays_data)
     ELSE
       LET e == extract_post_data(r.soup)
       IN IF e.raised
          THEN Result("error", "extract", TRUE, md_files, html_files, essays_data)
          ELSE
            LET w == save_to_file(md_files, md_name, e.md)
            IN IF w.raised
               THEN Result("error", "save_md", TRUE, md_files, html_files, essays_data)
               ELSE
                 LET h == save_to_html_file(html_files, html_name, md_to_html(e.md))
                     batch == Append(essays_data, Record(e, md_name, html_name))
                 IN IF h.raised
                    THEN Result("error", "save_html", TRUE, w.files, html_files, batch)
                    ELSE Result("ok", "", TRUE, w.files, h.files, batch)

\* Lines 364-382 of scrape_posts: fetch, extract, write both files and
\* append the record; how it ended and what it left on disk and in the batch.
FetchAndSave(url) ==
  LET md_name == get_filename_from_url(url, MdType)
      html_name == get_filename_from_url(url, HtmlType)
      r == get_url_soup(url)
  IN IF r.raised
     THEN Result("error", "fetch", TRUE, md_files, html_files, essays_data)
     ELSE IF r.none
     THEN Result("paywalled", "", TRUE, md_files, html_files, essays_data)
     ELSE
       LET e == extract_post_data(r.soup)
       IN IF e.raised
          THEN Result("error", "extract", TRUE, md_files, html_files, essays_data)
          ELSE
            LET w == save_to_file(md_files, md_name, e.md)
            IN IF w.raised
               THEN Result("error", "save_md", TRUE, md_files, html_files, essays_data)
               ELSE
                 LET h == save_to_html_file(html_files, html_name, md_to_html(e.md))
                 IN IF h.raised
                    THEN Result("error", "save_html", TRUE, w.files, html_files,
                                essays_data)
                    ELSE Result("ok", "", TRUE, w.files, h.files,
                                Append(essays_data, Record(e, md_name, html_name)))

\* TryBody without the test of line 363: every post is fetched again.
TryBody_NoExistsTest(url) == FetchAndSave(url)

\* The body of the try statement of scrape_posts for one URL, from the
\* state the loop is in ("exists", "paywalled", "error" at a stage, "ok").
TryBody(url) ==
  IF path_exists(md_files, get_filename_from_url(url, MdType))
  THEN Result("exists", "", FALSE, md_files, html_files, essays_data)
  ELSE FetchAndSave(url)

\* count after the iteration: "continue" on a paywalled post skips count += 1
Counted(outcome) == IF outcome = "paywalled" THEN count ELSE count + 1

\* Break with the exception of a post ending the loop.
Break_OnError(outcome) ==
  \/ outcome = "error"
  \/ /\ outcome # "paywalled"
     /\ num_posts_to_scrape # 0
     /\ Counted(outcome) = num_posts_to_scrape

\* Break comparing with > instead of ==: one post too many.
Break_OffByOne(outcome) ==
  /\ outcome # "paywalled"
  /\ num_posts_to_scrape # 0
  /\ Counted(outcome) > num_posts_to_scrape

\* the break of the loop, which the "continue" of a paywalled post also skips
Break(outcome) ==
  /\ outcome # "paywalled"
  /\ num_posts_to_scrape # 0
  /\ Counted(outcome) = num_posts_to_scrape

\* ----------------------------------------------------------------- login
\* calls: calls of login; filled, submitted: the credential form was filled,
\* submitted; exhausted: the wait loop ran through its whole range;
\* left_seen: the browser was seen off the sign-in page; result of the call.
NoLogin == [calls |-> 0, filled |-> FALSE, submitted |-> FALSE, exhausted |-> FALSE,
            left_seen |-> FALSE, result |-> "none"]

\* is_login_failed without the test of the current URL (lines 551-554).
is_login_failed_NoUrlTest(error_shown, on_signin, alert_shown) ==
  IF error_shown THEN TRUE ELSE alert_shown

\* is_login_failed, from what the browser shows when it is called
is_login_failed(error_shown, on_signin, alert_shown) ==
  IF error_shown THEN TRUE
  ELSE IF on_signin THEN TRUE
  ELSE alert_shown

\* ---------------------------------------------------------------- actions
Stopped == pc \in {"off", "done", "killed", "crashed"}

ResetLocals ==
  /\ post_urls' = <<>>
  /\ idx' = 1
  /\ count' = 0
  /\ total' = 0
  /\ essays_data' = <<>>

\* main() up to the end of BaseSubstackScraper.__init__: a new process
\* parses its arguments and discovers the post URLs.
BaseInit ==
  /\ Stopped
  /\ run < MaxRuns
  /\ run' = run + 1
  /\ \E n \in 0..MaxLimit : num_posts_to_scrape' = n
  /\ LET d == get_all_post_urls
     IN /\ requests' = d.requests
        /\ post_urls' = d.urls
        /\ pc' = IF d.raised THEN "crashed"
                 ELSE IF premium THEN "base_ready" ELSE "ready"
        /\ error' = IF d.raised THEN "ParseError" ELSE ""
  /\ idx' = 1
  /\ count' = 0
  /\ total' = 0
  /\ essays_data' = <<>>
  /\ remaining' = 0
  /\ fetched' = <<>>
  /\ outcomes' = <<>>
  /\ login_log' = NoLogin
  /\ prev_done' = (pc = "done")
  /\ prev_limit' = IF pc = "done" THEN num_posts_to_scrape ELSE 0
  /\ fresh_index' = (~index_json.exists \/ index_json.data = <<>>)
  /\ UNCHANGED <<site, disk, interrupted>>

\* PremiumSubstackScraper.__init__ without the call of login (line 453).
PremiumInit_NoLogin ==
  /\ pc = "base_ready"
  /\ pc' = "ready"
  /\ UNCHANGED <<site, disk, run, num_posts_to_scrape, locals, remaining, requests,
                 fetched, outcomes, login_log, error, prev_done, prev_limit,
                 interrupted, fresh_index>>

\* The rest of PremiumSubstackScraper.__init__: the driver is created and
\* login is called.
PremiumInit ==
  /\ pc = "base_ready"
  /\ pc' = "login"
  /\ login_log' = [login_log EXCEPT !.calls = @ + 1]
  /\ UNCHANGED <<site, disk, run, num_posts_to_scrape, locals, remaining, requests,
                 fetched, outcomes, error, prev_done, prev_limit, interrupted,
                 fresh_index>>

\* login, from driver.get(sign-in) to the click on the submit button; a
\* wait that times out raises, is caught, and leads to the final check.
LoginSubmit ==
  /\ pc = "login"
  /\ \E step \in {"submitted", "no_password_option", "no_fields", "no_submit_button"} :
       /\ pc' = IF step = "submitted" THEN "login_wait" ELSE "login_check"
       /\ remaining' = IF step = "submitted" THEN CaptchaBudget ELSE 0
       /\ login_log' = [login_log EXCEPT
                          !.filled = step \in {"submitted", "no_submit_button"},
                          !.submitted = (step = "submitted")]
  /\ UNCHANGED <<site, disk, run, num_posts_to_scrape, locals, requests,
                 fetched, outcomes, error, prev_done, prev_limit, interrupted,
                 fresh_index>>

\* One iteration of the wait loop of login: sleep, then look at the browser.
LoginPoll ==
  /\ pc = "login_wait"
  /\ \E on_signin \in BOOLEAN, err \in {"none", "captcha", "other"} :
       /\ login_log' = [login_log EXCEPT
                          !.exhausted = on_signin /\ err # "other"
                                          /\ remaining - CaptchaStep <= 0,
                          !.left_seen = @ \/ ~on_signin,
                          !.result = IF on_signin THEN @ ELSE "returned"]
       /\ IF ~on_signin
          THEN pc' = "ready" /\ remaining' = 0
          ELSE IF err = "other"
          THEN pc' = "login_check" /\ remaining' = 0
          ELSE /\ remaining' = remaining - CaptchaStep
               /\ pc' = IF remaining - CaptchaStep > 0 THEN "login_wait"
                        ELSE "login_check"
  /\ UNCHANGED <<site, disk, run, num_posts_to_scrape, locals, requests,
                 fetched, outcomes, error, prev_done, prev_limit, interrupted,
                 fresh_index>>

\* The final check of login: raise ValueError, or return.
LoginCheck ==
  /\ pc = "login_check"
  /\ \E error_shown \in BOOLEAN, on_signin \in BOOLEAN, alert_shown \in BOOLEAN :
       LET failed == is_login_failed(error_shown, on_signin, alert_shown)
       IN /\ pc' = IF failed THEN "crashed" ELSE "ready"
          /\ error' = IF failed THEN "LoginFailed" ELSE error
          /\ login_log' = [login_log EXCEPT
                             !.left_seen = @ \/ ~on_signin,
                             !.result = IF failed THEN "raised" ELSE "returned"]
  /\ UNCHANGED <<site, disk, run, num_posts_to_scrape, locals, remaining, requests,
                 fetched, outcomes, prev_done, prev_limit, interrupted,
                 fresh_index>>

\* scrape_posts, up to the for statement.
ScrapeBegin ==
  /\ pc = "ready"
  /\ essays_data' = <<>>
  /\ count' = 0
  /\ total' = IF num_posts_to_scrape # 0 THEN num_posts_to_scrape ELSE Len(post_urls)
  /\ idx' = 1
  /\ pc' = IF post_urls = <<>> THEN "save" ELSE "loop"
  /\ UNCHANGED <<site, disk, run, num_posts_to_scrape, post_urls, remaining, requests,
                 fetched, outcomes, login_log, error, prev_done, prev_limit,
                 interrupted, fresh_index>>

\* One iteration of the for loop of scrape_posts.
VisitUrl ==
  /\ pc = "loop"
  /\ \E r \in {TryBody(post_urls[idx])} :
       LET skipped == (r.outcome = "paywalled")
       IN /\ md_files' = r.md
          /\ html_files' = r.html
          /\ essays_data' = r.essays
          /\ fetched' = IF r.fetch THEN Append(fetched, post_urls[idx]) ELSE fetched
          /\ outcomes' = Append(outcomes, [url |-> post_urls[idx], outcome |-> r.outcome,
                                          stage |-> r.stage])
          /\ total' = IF skipped THEN total + 1 ELSE total
          /\ count' = Counted(r.outcome)
          /\ idx' = idx + 1
          /\ pc' = IF Break(r.outcome) \/ idx = Len(post_urls) THEN "save" ELSE "loop"
  /\ UNCHANGED <<site, index_json, run, num_posts_to_scrape, post_urls, remaining,
                 requests, login_log, error, prev_done, prev_limit, interrupted,
                 fresh_index>>

\* The end of scrape_posts: the batch is merged into the index file.
SaveIndex ==
  /\ pc = "save"
  /\ index_json' = save_essays_data_to_json(index_json, essays_data)
  /\ pc' = "done"
  /\ UNCHANGED <<site, md_files, html_files, run, num_posts_to_scrape, locals,
                 remaining, requests, fetched, outcomes, login_log, error,
                 prev_done, prev_limit, interrupted, fresh_index>>

\* The process is killed inside an iteration: after the Markdown file of
\* the post was written, or after its HTML mirror was written too.
KillInVisit ==
  /\ pc = "loop"
  /\ \E r \in {TryBody(post_urls[idx])} :
       /\ r.md # md_files
       /\ \E point \in {"after_md", "after_html"} :
            /\ point = "after_html" => r.outcome = "ok"
            /\ md_files' = r.md
            /\ html_files' = IF point = "after_html" THEN r.html ELSE html_files
  /\ pc' = "killed"
  /\ interrupted' = TRUE
  /\ ResetLocals
  /\ UNCHANGED <<site, index_json, run, num_posts_to_scrape, remaining, requests,
                 fetched, outcomes, login_log, error, prev_done, prev_limit,
                 fresh_index>>

\* The process is killed after the loop, before the index is merged.
KillBeforeSave ==
  /\ pc = "save"
  /\ pc' = "killed"
  /\ interrupted' = TRUE
  /\ ResetLocals
  /\ UNCHANGED <<site, disk, run, num_posts_to_scrape, remaining, requests,
                 fetched, outcomes, login_log, error, prev_done, prev_limit,
                 fresh_index>>

\* --------------------------------------------------------- specifications
InitProcess ==
  /\ md_files = <<>>
  /\ html_files = <<>>
  /\ index_json = NoIndex
  /\ pc = "off"
  /\ run = 0
  /\ num_posts_to_scrape = 0
  /\ post_urls = <<>>
  /\ idx = 1
  /\ count = 0
  /\ total = 0
  /\ essays_data = <<>>
  /\ remaining = 0
  /\ requests = <<>>
  /\ fetched = <<>>
  /\ outcomes = <<>>
  /\ login_log = NoLogin
  /\ error = ""
  /\ prev_done = FALSE
  /\ prev_limit = 0
  /\ interrupted = FALSE
  /\ fresh_index = TRUE

\* The sites of the pipeline runs: the sitemap lists up to n distinct posts
\* of U; the feed, which is read only when the sitemap yields nothing, is
\* left failing when the sitemap lists posts, and holds up to m items else.
Sites(U, n, m) ==
  {<<Xml(l), HttpError>> : l \in {s \in SeqsUpTo(U, n) : s # <<>> /\ Injective(s)}}
  \cup ({HttpError, Malformed, Xml(<<>>)}
        \X Responses({[k \in 1..Len(l) |-> Item(l[k])] : l \in SeqsUpTo(U, m)}))

\* main() without -p, run after run.
Init ==
  /\ \E s \in Sites(PostUrls, MaxUrls, MaxFeedItems) : sitemap = s[1] /\ feed = s[2]
  /\ premium = FALSE
  /\ InitProcess

Next ==
  \/ BaseInit
  \/ ScrapeBegin
  \/ VisitUrl
  \/ SaveIndex
  \/ KillInVisit
  \/ KillBeforeSave

Spec == Init /\ [][Next]_vars

\* main() without -p, on a site where two URLs end in the same slug and so
\* share their file names.
InitSlugs ==
  /\ \E s \in Sites(SlugUrls, MaxUrls, MaxFeedItems) : sitemap = s[1] /\ feed = s[2]
  /\ premium = FALSE
  /\ InitProcess

SpecSlugs == InitSlugs /\ [][Next]_vars

\* main() with -p, run after run.
InitPremium ==
  /\ \E s \in Sites(PremiumUrls, MaxPremiumUrls, MaxFeedItems) :
       sitemap = s[1] /\ feed = s[2]
  /\ premium = TRUE
  /\ InitProcess

NextPremium ==
  \/ BaseInit
  \/ PremiumInit
  \/ LoginSubmit
  \/ LoginPoll
  \/ LoginCheck
  \/ ScrapeBegin
  \/ VisitUrl
  \/ SaveIndex

SpecPremium == InitPremium /\ [][NextPremium]_vars

\* Construction alone, over every pair of sitemap and feed answers.
SrcItems == {Item(u) : u \in SrcUrls} \cup {NoLinkItem}

InitDiscovery ==
  /\ sitemap \in Responses(SeqsUpTo(SrcUrls, MaxSrcItems))
  /\ feed \in Responses(SeqsUpTo(SrcItems, MaxSrcItems))
  /\ premium = FALSE
  /\ InitProcess

NextDiscovery == BaseInit

SpecDiscovery == InitDiscovery /\ [][NextDiscovery]_vars

\* ------------------------------------------------------ shared by the claims
MdName(url) == get_filename_from_url(url, MdType)
HtmlName(url) == get_filename_from_url(url, HtmlType)

\* The record a complete pipeline produces for the page served at url.
ExpectedRecord(url) == Record(extract_post_data(Page(url)), MdName(url), HtmlName(url))

\* The record of U_a scraped when the post had one like more: the same
\* post, but not the same record.
RelikedRecord == [ExpectedRecord(U_a) EXCEPT !.like_count = "13"]

\* save_essays_data_to_json alone, called with any batch on any index file.
MergeRecords == {ExpectedRecord(U_a), ExpectedRecord(U_b), RelikedRecord}

InitMerge ==
  /\ sitemap = Xml(<<>>)
  /\ feed = HttpError
  /\ premium = FALSE
  /\ md_files = <<>>
  /\ html_files = <<>>
  /\ index_json \in {NoIndex} \cup {IndexOf(l) : l \in SeqsUpTo(MergeRecords, MaxIndexLen)}
  /\ pc = "save"
  /\ run = 1
  /\ num_posts_to_scrape = 0
  /\ post_urls = <<>>
  /\ idx = 1
  /\ count = 0
  /\ total = 0
  /\ essays_data \in SeqsUpTo(MergeRecords, MaxBatchLen)
  /\ remaining = 0
  /\ requests = <<"sitemap.xml", "feed.xml">>
  /\ fetched = <<>>
  /\ outcomes = <<>>
  /\ login_log = NoLogin
  /\ error = ""
  /\ prev_done = FALSE
  /\ prev_limit = 0
  /\ interrupted = FALSE
  /\ fresh_index = (~index_json.exists \/ index_json.data = <<>>)

NextMerge == SaveIndex

SpecMerge == InitMerge /\ [][NextMerge]_vars

InScrape == pc \in {"loop", "save", "done"}

OutcomesWith(kinds) == SelectSeq(outcomes, LAMBDA o : o.outcome \in kinds)

NoDuplicates(s) == \A j, k \in 1..Len(s) : s[j] = s[k] => j = k

HasRecord(url) ==
  \E k \in 1..Len(index_json.data) :
     index_json.data[k].file_link = RelPath("markdown", MdName(url))

\* ------------------------------------------------------------------- C1
\* C1: an iteration of scrape_posts that finds the Markdown file of its URL
\* on disk hands nothing to the fetcher, writes no Markdown or HTML file and
\* appends no record to the batch.
C1_ExistingPostNotRefetched ==
  [][(pc = "loop" /\ path_exists(md_files, MdName(post_urls[idx])))
       => /\ fetched' = fetched
          /\ md_files' = md_files
          /\ html_files' = html_files
          /\ essays_data' = essays_data]_vars

\* A run has just passed over a post whose Markdown file an earlier run wrote.
C1_Witness ==
  /\ InScrape
  /\ \E k \in 1..Len(outcomes) :
       /\ outcomes[k].outcome = "exists"
       /\ outcomes[k].url \notin Range(fetched)
       /\ path_exists(md_files, MdName(outcomes[k].url))

\* ------------------------------------------------------------------- C2
\* C2: whatever posts fail, scrape_posts finishes without an exception, its
\* loop ends only at the end of the list or at the limit, and, when the
\* index was empty at the start, the index written holds exactly the
\* records of the posts whose pipeline completed, in order, and none for a
\* post that failed.
C2_PartialFailureIsolation ==
  pc = "done" =>
    /\ error = ""
    /\ \/ Len(outcomes) = Len(post_urls)
       \/ /\ num_posts_to_scrape # 0
          /\ Len(OutcomesWith({"exists", "error", "ok"})) = num_posts_to_scrape
    /\ fresh_index =>
         /\ index_json.exists
         /\ LET done == OutcomesWith({"ok"})
            IN index_json.data = [k \in 1..Len(done) |-> ExpectedRecord(done[k].url)]
         /\ \A k \in 1..Len(outcomes) :
              outcomes[k].outcome = "error" => ~HasRecord(outcomes[k].url)

\* Three posts, the second failing: the first and the third are recorded.
C2_Witness ==
  /\ pc = "done"
  /\ fresh_index
  /\ Len(outcomes) = 3
  /\ outcomes[1].outcome = "ok"
  /\ outcomes[2].outcome = "error"
  /\ outcomes[3].outcome = "ok"
  /\ Len(index_json.data) = 2

\* ------------------------------------------------------------------- C3
\* C3: a process that follows a completed process with the same limit on
\* the same site changes nothing on disk (no file, no file content, no
\* index record), and the index holds no two identical records.
C3_Idempotence ==
  [][(prev_done /\ prev_limit = num_posts_to_scrape /\ pc \in {"ready", "loop", "save"})
       => /\ md_files' = md_files
          /\ html_files' = html_files
          /\ index_json' = index_json
          /\ NoDuplicates(index_json'.data)]_vars

\* The second of two equal runs has finished, over posts the first recorded.
C3_Witness ==
  /\ pc = "done"
  /\ prev_done
  /\ prev_limit = num_posts_to_scrape
  /\ Len(outcomes) >= 2
  /\ Len(index_json.data) >= 2

\* ------------------------------------------------------------------- C4
\* A post with a complete page, of which an uninterrupted run leaves all
\* three artifacts.
Fetchable(url) ==
  LET r == SubstackScraper_get_url_soup(url)
  IN /\ ~r.raised
     /\ ~r.none
     /\ r.soup.container
     /\ ~extract_post_data(r.soup).raised
     /\ MdName(url) \notin Unwritable
     /\ HtmlName(url) \notin Unwritable

\* C4: after an interrupted run, a later run that completes without a
\* failure leaves, for every fetchable post within the limit, its Markdown
\* file, its HTML mirror and its record in the index.
C4_Resumable ==
  (pc = "done" /\ interrupted /\ OutcomesWith({"error"}) = <<>>) =>
    \A k \in 1..Len(outcomes) :
       Fetchable(outcomes[k].url) =>
         /\ path_exists(md_files, MdName(outcomes[k].url))
         /\ path_exists(html_files, HtmlName(outcomes[k].url))
         /\ HasRecord(outcomes[k].url)

\* ------------------------------------------------------------------- C5
\* C5 as stated: with a limit n > 0 at most n URLs are examined.
C5_AtMostLimitExamined ==
  (InScrape /\ num_posts_to_scrape > 0) => Len(outcomes) <= num_posts_to_scrape

\* C5, amended: the URLs are examined in list order, each once; with a
\* limit n > 0 at most n examined URLs are counted, every examined URL
\* counting except a paywalled one, and the loop stops at the n-th counted
\* URL; with limit 0 every URL of the list is examined.
C5_LimitCountsAllButPaywalled ==
  InScrape =>
    /\ Len(outcomes) <= Len(post_urls)
    /\ \A k \in 1..Len(outcomes) : outcomes[k].url = post_urls[k]
    /\ count = Len(OutcomesWith({"exists", "error", "ok"}))
    /\ num_posts_to_scrape > 0 => count <= num_posts_to_scrape
    /\ (pc = "loop" /\ num_posts_to_scrape > 0) => count < num_posts_to_scrape
    /\ pc # "loop" =>
         \/ Len(outcomes) = Len(post_urls)
         \/ num_posts_to_scrape > 0 /\ count = num_posts_to_scrape

\* A limited run that examined more URLs than its limit, one being paywalled.
C5_Witness ==
  /\ pc = "done"
  /\ num_posts_to_scrape > 0
  /\ Len(outcomes) > num_posts_to_scrape
  /\ OutcomesWith({"paywalled"}) # <<>>

\* ------------------------------------------------------------------ C10
\* C10: a post whose page lacks div.available-content leaves no Markdown
\* file, no HTML mirror and no index record.
C10_NoContainerSkipped ==
  \A u \in PostUrls :
     ~Page(u).container =>
       /\ ~path_exists(md_files, MdName(u))
       /\ ~path_exists(html_files, HtmlName(u))
       /\ ~HasRecord(u)

\* ------------------------------------------------------------------- C6
\* C6: in a process run with -p, login is called once, by the constructor;
\* scrape_posts starts, and a post is fetched, only after login returned
\* without raising; when login raises the process ends with no post fetched.
C6_LoginOnceBeforeAnyFetch ==
  /\ login_log.calls <= 1
  /\ pc \in {"ready", "loop", "save", "done"} =>
       login_log.calls = 1 /\ login_log.result = "returned"
  /\ (fetched # <<>> \/ outcomes # <<>>) => login_log.result = "returned"
  /\ login_log.result = "raised" =>
       pc = "crashed" /\ error = "LoginFailed" /\ fetched = <<>> /\ outcomes = <<>>

\* A premium run fetched a post, after its one login.
C6_Witness ==
  /\ pc = "done"
  /\ fetched # <<>>
  /\ login_log.calls = 1
  /\ login_log.submitted

\* ------------------------------------------------------------------- C7
MaxPolls == CaptchaBudget \div CaptchaStep

LoginEnded == login_log.calls = 1 /\ pc \notin {"login", "login_wait", "login_check"}

\* main() with -p, the process going on as long as it has a step to take.
FairSpecPremium ==
  /\ SpecPremium
  /\ WF_vars(LoginSubmit)
  /\ WF_vars(LoginPoll)
  /\ WF_vars(LoginCheck)

\* While login waits, its countdown is one of 120, 110, ..., 10; a login
\* that never saw the browser off the sign-in page has raised; and a login
\* that went through the whole countdown did not return from a poll.
C7_Budget ==
  /\ pc = "login_wait" =>
       /\ login_log.submitted
       /\ remaining \in {CaptchaStep * k : k \in 1..MaxPolls}
  /\ (LoginEnded /\ ~login_log.left_seen) =>
       login_log.result = "raised" /\ pc = "crashed" /\ error = "LoginFailed"
  /\ login_log.result = "returned" => login_log.left_seen

\* C7: after the form is submitted login polls at most 12 times, 10 s of its
\* 120 s countdown going with each poll that keeps waiting, and the call
\* always ends; when the browser is on the sign-in page at every poll and
\* at the final check, it ends by raising the authentication error.
C7_AuthenticationBudget ==
  /\ []C7_Budget
  /\ [][pc = "login_wait" =>
          \/ pc' # "login_wait"
          \/ remaining' = remaining - CaptchaStep]_vars
  /\ (pc = "login") ~> (pc \in {"ready", "crashed"})

\* The whole budget was spent on the sign-in page, and login raised.
C7_Witness ==
  /\ login_log.submitted
  /\ login_log.exhausted
  /\ ~login_log.left_seen
  /\ login_log.result = "raised"

\* ------------------------------------------------------------------- C8
SitemapYields == sitemap.ok /\ sitemap.well_formed /\ sitemap.items # <<>>

\* The links of the feed's items, in order, when the feed is served and parses.
FeedLinks ==
  LET linked == SelectSeq(feed.items, LAMBDA it : it.has_link /\ it.text # <<>>)
  IN [k \in 1..Len(linked) |-> linked[k].text]

Discovered == pc \in {"ready", "base_ready", "crashed"}

\* C8: when the sitemap request has a non-success status, the feed is
\* requested after the sitemap and, if discovery returns, its result is the
\* feed's links without those holding a forbidden keyword; when the sitemap
\* yields a URL the feed is not requested.
C8_FeedFallback ==
  Discovered =>
    /\ ~sitemap.ok =>
         /\ requests = <<"sitemap.xml", "feed.xml">>
         /\ pc = "ready" =>
              post_urls = (IF feed.ok THEN filter_urls(FeedLinks, keywords) ELSE <<>>)
    /\ SitemapYields => requests = <<"sitemap.xml">>

\* The sitemap answered with an error status and the feed gave the URLs.
C8_Witness ==
  /\ pc = "ready"
  /\ ~sitemap.ok
  /\ requests = <<"sitemap.xml", "feed.xml">>
  /\ post_urls # <<>>
  /\ Len(post_urls) < Len(feed.items)

\* ------------------------------------------------------------------- C9
\* C9: discovery never raises: an unparsable sitemap makes it request the
\* feed, and when both sitemap and feed fail it returns the empty list.
C9_DiscoveryNeverFatal ==
  Discovered =>
    /\ error # "ParseError"
    /\ (sitemap.ok /\ ~sitemap.well_formed) => requests = <<"sitemap.xml", "feed.xml">>
    /\ (~(sitemap.ok /\ sitemap.well_formed) /\ ~(feed.ok /\ feed.well_formed)) =>
         pc = "ready" /\ post_urls = <<>>

\* ------------------------------------------------------------------ C11
\* The wait of the authenticated fetcher for url ends by timing out.
TimesOut(url) == Page(url).nav = "ok" /\ ~Ready(Page(url))

InBatch(url) ==
  \E k \in 1..Len(essays_data) :
     essays_data[k].file_link = RelPath("markdown", MdName(url))

\* C11: in a run with -p, a post fetched with none of the readiness markers
\* showing within the wait is skipped: no extraction is run on its page,
\* and it gets no Markdown file, no HTML mirror and no record in the batch.
C11_TimeoutSkipsPost ==
  (premium /\ InScrape) =>
    \A k \in 1..Len(outcomes) :
       (outcomes[k].url \in Range(fetched) /\ TimesOut(outcomes[k].url)) =>
         /\ outcomes[k].outcome # "ok"
         /\ outcomes[k].stage \notin {"extract", "save_md", "save_html"}
         /\ ~path_exists(md_files, MdName(outcomes[k].url))
         /\ ~path_exists(html_files, HtmlName(outcomes[k].url))
         /\ ~InBatch(outcomes[k].url)

\* ------------------------------------------------------------------ C12
\* C12: in a run with -p, a post whose navigation fails is the last one
\* handed to the fetcher by that run: the failure is not an ordinary skip
\* after which the loop goes on fetching through the same session.
C12_NavigationFailureEndsFetching ==
  (premium /\ InScrape) =>
    \A k \in 1..Len(fetched) : Page(fetched[k]).nav = "error" => k = Len(fetched)

\* ------------------------------------------------------------------ C13
\* C13: the index save_essays_data_to_json writes starts with the existing
\* index, record for record, and goes on, in batch order, with exactly the
\* records of the batch that equal no existing record; with no index file
\* it is the batch.
C13_MergeAppendsNewRecords ==
  [][pc = "save" =>
       LET old == index_json.data
           new == index_json'.data
       IN /\ index_json'.exists
          /\ Len(new) >= Len(old)
          /\ \A k \in 1..Len(old) : new[k] = old[k]
          /\ SubSeq(new, Len(old) + 1, Len(new))
               = SelectSeq(essays_data, LAMBDA d : \A k \in 1..Len(old) : d # old[k])
          /\ ~index_json.exists => new = essays_data]_vars

\* A batch of a record the index held and one it did not was merged into
\* an index of two records.
C13_Witness ==
  /\ pc = "done"
  /\ essays_data = <<ExpectedRecord(U_a), RelikedRecord>>
  /\ index_json.data = <<ExpectedRecord(U_b), ExpectedRecord(U_a), RelikedRecord>>

\* ------------------------------------------------------------------ C14
\* C14: no step of any run removes a Markdown file or an HTML mirror that
\* is on disk, or changes its content.
C14_ArtifactsWrittenOnce ==
  [][/\ \A n \in DOMAIN md_files :
          n \in DOMAIN md_files' /\ md_files'[n] = md_files[n]
     /\ \A n \in DOMAIN html_files :
          n \in DOMAIN html_files' /\ html_files'[n] = html_files[n]]_vars

\* A run came to a URL whose file names were taken by another post: the
\* files of that post are on disk as they were written.
C14_Witness ==
  /\ InScrape
  /\ \E k \in 1..Len(outcomes) : outcomes[k].url = U_s /\ outcomes[k].outcome = "exists"
  /\ path_exists(md_files, MdName(U_s))
  /\ md_files[MdName(U_s)] = extract_post_data(Page(U_a)).md
  /\ path_exists(html_files, HtmlName(U_s))
  /\ html_files[HtmlName(U_s)].main = md_to_html(extract_post_data(Page(U_a)).md)

\* ------------------------------------------------------------------ C15
\* The URLs of the source discovery used: the sitemap's when it yields
\* any, else the feed's links.
SourceUrls == IF SitemapYields THEN sitemap.items ELSE FeedLinks

Forbidden(url) ==
  \E kw \in {"about", "archive", "podcast"} : \E k \in 1..Len(url) : url[k] = kw

\* s is t without some of its entries, the others in t's order.
RECURSIVE IsSubsequence(_, _)
IsSubsequence(s, t) ==
  IF s = <<>> THEN TRUE
  ELSE IF t = <<>> THEN FALSE
  ELSE IF Head(s) = Head(t) THEN IsSubsequence(Tail(s), Tail(t))
  ELSE IsSubsequence(s, Tail(t))

PriorityTitle(page) ==
  LET h1s == {k \in 1..Len(page.headings) : page.headings[k].sel = "h1.post-title"}
      h2s == {k \in 1..Len(page.headings) :
                 page.headings[k].sel \in {"h2", "h2.paywall-title"}}
      first(S) == CHOOSE k \in S : \A j \in S : k <= j
  IN IF h1s # {} THEN page.headings[first(h1s)].text
     ELSE page.headings[first(h2s)].text

\* C16: the Markdown file a run has just written for a post carries as
\* title the text of the page's h1.post-title when the page has one,
\* wherever its h2 headings stand, and of its first h2 otherwise.
C16_TitlePriority ==
  InScrape =>
    \A k \in 1..Len(outcomes) :
       outcomes[k].outcome = "ok" =>
         md_files[MdName(outcomes[k].url)].title = PriorityTitle(Page(outcomes[k].url))

\* ------------------------------------------------------------------ C17
\* C17: a call of login that returned without raising had filled the
\* credential fields and clicked the submit button; a call that failed to
\* find the password option, the fields or the submit button has raised.
C17_ReturnsOnlyAfterSubmit ==
  login_log.result = "returned" => login_log.filled /\ login_log.submitted

\* ------------------------------------------------------------------ C18
\* The file name a file_link or html_link of a record points to.
LinkedName(link) == SubSeq(link, 3, Len(link))

FilesExist(rec) ==
  /\ path_exists(md_files, LinkedName(rec.file_link))
  /\ path_exists(html_files, LinkedName(rec.html_link))

\* C18: at every point of every run, whatever posts succeeded, were skipped
\* or failed and whatever runs were killed, each record of the index, and
\* each record of the batch, links a Markdown file and an HTML mirror that
\* are both on disk.
C18_RecordsHaveFiles ==
  /\ \A k \in 1..Len(index_json.data) : FilesExist(index_json.data[k])
  /\ \A k \in 1..Len(essays_data) : FilesExist(essays_data[k])

\* A run whose HTML write failed for one post has saved its index: the
\* post has its Markdown file and no record, another post has a record.
C18_Witness ==
  /\ pc = "done"
  /\ \E k \in 1..Len(outcomes) :
        outcomes[k].url = U_h /\ outcomes[k].stage = "save_html"
  /\ path_exists(md_files, MdName(U_h))
  /\ ~path_exists(html_files, HtmlName(U_h))
  /\ ~HasRecord(U_h)
  /\ index_json.data # <<>>

====
